---- MODULE Spec2Model ----
(***************************************************************************)
(* Plan-limit enforcement of OctoBot (octobot/limits.py): the exchange,    *)
(* symbol and time frame limiters and apply_config_limits, which runs      *)
(* them over one configuration.                                            *)
(*                                                                         *)
(* A mapping (dict) is modelled as the sequence of its values in iteration *)
(* order: the limiters never add or remove a key, so the position of an    *)
(* entry is its key.  An "enabled" option is "absent", "true" or "false".  *)
(***************************************************************************)
EXTENDS Integers, Sequences, FiniteSets, TLC

\* ---------------------------------------------------------------- bounds
MaxExchanges == 3
MaxCurrencies == 2
MaxPairs == 2
MaxStrategies == 2
MaxLimit == 3

\* constants.UNLIMITED_ALLOWED
Unlimited == -1

EnabledOptions == {"absent", "true", "false"}
\* common_constants.CONFIG_SYMBOLS_WILDCARD
Wildcard == "*"
Symbols == <<"BTC/USDT", "BTC/EUR">>
PairTokens == {Symbols[k] : k \in DOMAIN Symbols} \cup {Wildcard}

\* commons TimeFrames and their duration in minutes (TimeFramesMinutes)
TimeFrames == {"1m", "1h", "1d", "1w"}
TimeFramesMinutes ==
    [tf \in TimeFrames |->
        CASE tf = "1m" -> 1
          [] tf = "1h" -> 60
          [] tf = "1d" -> 1440
          [] tf = "1w" -> 10080]

Dimensions == {"exchanges", "symbols", "time_frames"}

\* ------------------------------------------------------------- utilities
SeqsUpTo(S, n) == UNION {[1..k -> S] : k \in 0..n}
ToSet(s) == {s[i] : i \in DOMAIN s}
IsInjective(s) == \A i, j \in DOMAIN s : s[i] = s[j] => i = j
RECURSIVE Orderings(_)
\* the lists that hold each member of S once
Orderings(S) ==
    IF S = {}
    THEN {<<>>}
    ELSE UNION {{<<x>> \o s : s \in Orderings(S \ {x})} : x \in S}
Min(a, b) == IF a < b THEN a ELSE b
Max(a, b) == IF a > b THEN a ELSE b

\* Python's s[k:], k possibly negative
SliceFrom(s, k) ==
    LET start == IF k < 0 THEN Max(Len(s) + k, 0) ELSE Min(k, Len(s))
    IN  SubSeq(s, start + 1, Len(s))

\* config.get(CONFIG_ENABLED_OPTION, True)
IsEnabled(option) == option # "false"

\* a warning message; the empty string is EmptyMessage
EmptyMessage == [empty |-> TRUE, note |-> 0, limit |-> 0, listed |-> <<>>]
Message(note, limit, listed) ==
    [empty |-> FALSE, note |-> note, limit |-> limit, listed |-> listed]

\* ------------------------------------------------------ exchange limiter
\* ExchangeStep keeping one entry too many (<= for <)
ExchangeStepOneMore(st, i, limit) ==
    IF IsEnabled(st.exchanges[i])
    THEN IF Len(st.enabled_exchanges) <= limit
         THEN [st EXCEPT !.enabled_exchanges = Append(@, i)]
         ELSE [st EXCEPT !.exchanges[i] = "false"]
    ELSE st

\* lines 32-38, one pass of the loop, over entry i; st.enabled_exchanges holds
\* the keys kept so far
ExchangeStep(st, i, limit) ==
    IF IsEnabled(st.exchanges[i])
    THEN IF Len(st.enabled_exchanges) < limit
         THEN [st EXCEPT !.enabled_exchanges = Append(@, i)]
         ELSE [st EXCEPT !.exchanges[i] = "false"]
    ELSE st

RECURSIVE ExchangesLoop(_, _, _)
ExchangesLoop(st, i, limit) ==
    IF i > Len(st.exchanges)
    THEN st
    ELSE ExchangesLoop(ExchangeStep(st, i, limit), i + 1, limit)

\* OverExchangesLimit with >= for >
OverExchangesLimitInclusive(enabledCount, limit) == enabledCount >= limit

\* line 30
OverExchangesLimit(enabledCount, limit) == enabledCount > limit

\* _apply_exchanges_limits(dict_config, logger, limit): the mapping it leaves
\* and the message it returns
ApplyExchangesLimitsOn(exs, limit) ==
    LET exchanges == {i \in DOMAIN exs : IsEnabled(exs[i])}
    IN  IF OverExchangesLimit(Cardinality(exchanges), limit)
        THEN LET r == ExchangesLoop([exchanges |-> exs, enabled_exchanges |-> <<>>],
                                    1, limit)
             IN  [exchanges |-> r.exchanges,
                  message |-> Message(0, limit, r.enabled_exchanges)]
        ELSE [exchanges |-> exs, message |-> EmptyMessage]

\* -------------------------------------------------------- symbol limiter
\* PairStep looking for the wildcard only while symbols are still accepted
PairStepWildcardWhenRoom(st, symbol, limit) ==
    IF Len(st.enabled_symbols) < limit
    THEN IF symbol = Wildcard
         THEN [st EXCEPT !.has_disabled_symbols = TRUE, !.wildcard = TRUE]
         ELSE [st EXCEPT !.enabled_symbols = Append(@, symbol),
                         !.updated_symbols = Append(@, symbol)]
    ELSE [st EXCEPT !.has_disabled_symbols = TRUE]

\* PairStep dropping a symbol over the limit without recording it
PairStepSilentDrop(st, symbol, limit) ==
    IF symbol = Wildcard
    THEN [st EXCEPT !.has_disabled_symbols = TRUE, !.wildcard = TRUE]
    ELSE IF Len(st.enabled_symbols) < limit
         THEN [st EXCEPT !.enabled_symbols = Append(@, symbol),
                         !.updated_symbols = Append(@, symbol)]
         ELSE st

\* lines 57-69, one pass of the inner loop, over one symbol of a currency
PairStep(st, symbol, limit) ==
    IF symbol = Wildcard
    THEN [st EXCEPT !.has_disabled_symbols = TRUE, !.wildcard = TRUE]
    ELSE IF Len(st.enabled_symbols) < limit
         THEN [st EXCEPT !.enabled_symbols = Append(@, symbol),
                         !.updated_symbols = Append(@, symbol)]
         ELSE [st EXCEPT !.has_disabled_symbols = TRUE]

RECURSIVE PairsLoop(_, _, _, _)
\* the loop of lines 56-69 from pair j on; the wildcard breaks out of it
PairsLoop(st, pairs, j, limit) ==
    IF j > Len(pairs) \/ st.wildcard
    THEN st
    ELSE PairsLoop(PairStep(st, pairs[j], limit), pairs, j + 1, limit)

\* lines 49-70, one pass of the outer loop, over currency i; st.note is the
\* currency the wildcard message names (0: none).  A currency entry without a
\* pair list raises KeyError at line 56.
CurrencyStep(st, i, limit) ==
    LET crypto_currency_data == st.currencies[i]
    IN  IF ~IsEnabled(crypto_currency_data.enabled)
        THEN st
        ELSE IF Len(st.enabled_symbols) >= limit
             THEN [st EXCEPT !.currencies[i].enabled = "false",
                             !.has_disabled_symbols = TRUE]
             ELSE IF ~crypto_currency_data.hasPairs
                  THEN [st EXCEPT !.raised = TRUE]
                  ELSE LET r == PairsLoop([enabled_symbols |-> st.enabled_symbols,
                                           updated_symbols |-> <<>>,
                                           has_disabled_symbols |-> st.has_disabled_symbols,
                                           wildcard |-> FALSE],
                                          crypto_currency_data.pairs, 1, limit)
                       IN  [st EXCEPT
                              !.currencies[i].enabled = IF r.wildcard THEN "false" ELSE @,
                              !.currencies[i].pairs = r.updated_symbols,
                              !.enabled_symbols = r.enabled_symbols,
                              !.has_disabled_symbols = r.has_disabled_symbols,
                              !.note = IF r.wildcard THEN i ELSE @]

RECURSIVE CurrenciesLoop(_, _, _)
\* the loop of lines 48-70 from currency i on; an exception ends it
CurrenciesLoop(st, i, limit) ==
    IF i > Len(st.currencies) \/ st.raised
    THEN st
    ELSE CurrenciesLoop(CurrencyStep(st, i, limit), i + 1, limit)

\* _apply_symbols_limits(dict_config, logger, limit)
ApplySymbolsLimitsOn(curs, limit) ==
    LET r == CurrenciesLoop([currencies |-> curs, enabled_symbols |-> <<>>,
                             has_disabled_symbols |-> FALSE, note |-> 0,
                             raised |-> FALSE], 1, limit)
    IN  [currencies |-> r.currencies,
         raised |-> r.raised,
         message |-> IF r.raised \/ ~r.has_disabled_symbols
                     THEN EmptyMessage
                     ELSE Message(r.note, limit, r.enabled_symbols)]

\* ---------------------------------------------------- time frame limiter
RECURSIVE SortTimeFrames(_)
\* time_frame_manager.sort_time_frames: ascending by duration
SortTimeFrames(s) ==
    IF s = <<>>
    THEN <<>>
    ELSE LET m == CHOOSE i \in DOMAIN s :
                    \A j \in DOMAIN s :
                        TimeFramesMinutes[s[i]] <= TimeFramesMinutes[s[j]]
             rest == [k \in 1..(Len(s) - 1) |-> IF k < m THEN s[k] ELSE s[k + 1]]
         IN  <<s[m]>> \o SortTimeFrames(rest)

RECURSIVE AsList(_)
\* a list holding the members of S (the order is settled by a later sort)
AsList(S) ==
    IF S = {}
    THEN <<>>
    ELSE LET x == CHOOSE y \in S : TRUE IN <<x>> \o AsList(S \ {x})

\* AddedTimeFrames taking the shortest missing time frames ([:n] for [n:])
AddedTimeFramesShortest(missing_tf, all_enabled_time_frames, limit) ==
    SubSeq(missing_tf, 1,
           Min(Max(limit - Len(all_enabled_time_frames), 0), Len(missing_tf)))

\* line 101: the missing time frames that join all_enabled_time_frames
AddedTimeFrames(missing_tf, all_enabled_time_frames, limit) ==
    SliceFrom(missing_tf, limit - Len(all_enabled_time_frames))

\* lines 86-106: the values all_enabled_time_frames may take after a strategy
\* asking for config_time_frames; list(set) yields the members in any order
UpdatedTimeFrames(all_enabled_time_frames, config_time_frames, limit) ==
    LET combined_time_frames == ToSet(all_enabled_time_frames) \cup config_time_frames
    IN  IF Cardinality(combined_time_frames) < limit
        THEN {SortTimeFrames(AsList(combined_time_frames))}
        ELSE IF Cardinality(combined_time_frames) > limit
             THEN IF Len(all_enabled_time_frames) = limit
                  THEN {all_enabled_time_frames}
                  ELSE LET missing_tf ==
                               SortTimeFrames(AsList(config_time_frames
                                                     \ ToSet(all_enabled_time_frames)))
                           added_time_frames ==
                               AddedTimeFrames(missing_tf, all_enabled_time_frames, limit)
                       IN  {SortTimeFrames(all_enabled_time_frames \o added_time_frames)}
             ELSE Orderings(combined_time_frames)

\* StrategyEnabledTimeFrames without its filter
StrategyEnabledTimeFramesUnfiltered(config_time_frames, all_enabled_time_frames) ==
    config_time_frames

\* lines 109-113
StrategyEnabledTimeFrames(config_time_frames, all_enabled_time_frames) ==
    config_time_frames \cap ToSet(all_enabled_time_frames)

\* lines 107-121: what update_time_frames_config leaves as the strategy's
\* time frames (the next get_time_frames_from_strategy returns the saved list)
PatchedStrategy(config_time_frames, all_enabled_time_frames, has_disabled_time_frames) ==
    LET strategy_enabled_time_frames ==
            StrategyEnabledTimeFrames(config_time_frames, all_enabled_time_frames)
        should_update_config ==
            \E time_frame \in config_time_frames :
                time_frame \notin strategy_enabled_time_frames
    IN  IF has_disabled_time_frames /\ should_update_config
        THEN [updated |-> TRUE, time_frames |-> strategy_enabled_time_frames]
        ELSE [updated |-> FALSE, time_frames |-> config_time_frames]

\* one pass of the loop of lines 82-121, over strategy i, from loop state st;
\* st.trace records the members of all_enabled_time_frames after each pass
StrategyStep(st, i, limit) ==
    LET config_time_frames == st.strategies[i]
        combined_time_frames ==
            ToSet(st.all_enabled_time_frames) \cup config_time_frames
        has_disabled_time_frames ==
            st.has_disabled_time_frames \/ Cardinality(combined_time_frames) > limit
    IN  {LET patched == PatchedStrategy(config_time_frames, all, has_disabled_time_frames)
         IN  [all_enabled_time_frames |-> all,
              has_disabled_time_frames |-> has_disabled_time_frames,
              strategies |-> [st.strategies EXCEPT ![i] = patched.time_frames],
              updated |-> IF patched.updated THEN st.updated \cup {i} ELSE st.updated,
              trace |-> Append(st.trace, ToSet(all))]
         : all \in UpdatedTimeFrames(st.all_enabled_time_frames, config_time_frames, limit)}

RECURSIVE StrategiesLoop(_, _, _)
StrategiesLoop(states, i, limit) ==
    IF \A st \in states : i > Len(st.strategies)
    THEN states
    ELSE StrategiesLoop(UNION {StrategyStep(st, i, limit) : st \in states}, i + 1, limit)

\* _apply_time_frames_limits(full_config, logger, limit): its possible outcomes.
\* strategiesFail: get_activated_strategies_classes raises.
ApplyTimeFramesLimitsOn(strategies, strategiesFail, limit) ==
    LET start == [all_enabled_time_frames |-> <<>>,
                  has_disabled_time_frames |-> FALSE,
                  strategies |-> strategies,
                  updated |-> {},
                  trace |-> <<>>]
    IN  IF strategiesFail
        THEN {[strategies |-> strategies, raised |-> TRUE, message |-> EmptyMessage,
               updated |-> {}, trace |-> <<>>, all_enabled_time_frames |-> <<>>]}
        ELSE {[strategies |-> st.strategies,
               raised |-> FALSE,
               message |-> IF st.has_disabled_time_frames
                           THEN Message(0, limit, st.all_enabled_time_frames)
                           ELSE EmptyMessage,
               updated |-> st.updated,
               trace |-> st.trace,
               all_enabled_time_frames |-> st.all_enabled_time_frames]
              : st \in StrategiesLoop({start}, 1, limit)}

\* ---------------------------------------------------- apply_config_limits
NoTimeFramesRun(strategies) ==
    [strategies |-> strategies, raised |-> FALSE, message |-> EmptyMessage,
     updated |-> {}, trace |-> <<>>, all_enabled_time_frames |-> <<>>]

NonEmptyMessage(m) == ~m.empty

\* LimiterCalled with a try block of its own around each limiter
LimiterCalledAfterFailure(raisedBefore, ceiling) == ceiling # Unlimited

\* lines 132-141: a limiter is called when no statement of the try block has
\* raised before it and its ceiling is not the unlimited one
LimiterCalled(raisedBefore, ceiling) == ~raisedBefore /\ ceiling # Unlimited

\* CollectedMessages without the test of "if message := ..."
CollectedMessagesUntested(exMessage, symMessage, tfMessage) ==
    <<exMessage, symMessage, tfMessage>>

\* lines 134-141: the messages appended to limit_warning_messages
CollectedMessages(exMessage, symMessage, tfMessage) ==
    SelectSeq(<<exMessage, symMessage, tfMessage>>, NonEmptyMessage)

\* apply_config_limits(configuration), lines 129-147: its possible outcomes on
\* configuration conf under the ceilings max (constants.MAX_ALLOWED_*).
\* One try block holds the three calls: the first exception ends the block.
\* The exchange limiter raises KeyError when the configuration has no
\* exchanges mapping.
ApplyConfigLimitsOn(conf, max) ==
    LET exCalled == LimiterCalled(FALSE, max.exchanges)
        exRaised == exCalled /\ ~conf.hasExchanges
        ex == IF exCalled /\ ~exRaised
              THEN ApplyExchangesLimitsOn(conf.exchanges, max.exchanges)
              ELSE [exchanges |-> conf.exchanges, message |-> EmptyMessage]
        symCalled == LimiterCalled(exRaised, max.symbols)
        sym == IF symCalled
               THEN ApplySymbolsLimitsOn(conf.currencies, max.symbols)
               ELSE [currencies |-> conf.currencies, raised |-> FALSE,
                     message |-> EmptyMessage]
        tfCalled == LimiterCalled(exRaised \/ sym.raised, max.time_frames)
        tfs == IF tfCalled
               THEN ApplyTimeFramesLimitsOn(conf.strategies, conf.strategiesFail,
                                            max.time_frames)
               ELSE {NoTimeFramesRun(conf.strategies)}
    IN  {[config |-> [conf EXCEPT !.exchanges = ex.exchanges,
                                  !.currencies = sym.currencies,
                                  !.strategies = tf.strategies],
          called |-> {d \in Dimensions :
                        \/ d = "exchanges" /\ exCalled
                        \/ d = "symbols" /\ symCalled
                        \/ d = "time_frames" /\ tfCalled},
          failed |-> {d \in Dimensions :
                        \/ d = "exchanges" /\ exRaised
                        \/ d = "symbols" /\ sym.raised
                        \/ d = "time_frames" /\ tf.raised},
          propagated |-> FALSE,
          messages |-> [exchanges |-> ex.message, symbols |-> sym.message,
                        time_frames |-> tf.message],
          limit_warning_messages |->
              CollectedMessages(ex.message, sym.message, tf.message),
          updated |-> tf.updated,
          trace |-> tf.trace,
          all_enabled_time_frames |-> tf.all_enabled_time_frames]
         : tf \in tfs}

\* ------------------------------------------------------------------ state
VARIABLES
    config,      \* the configuration: exchanges, currencies, strategies' time frames
    maxAllowed,  \* constants.MAX_ALLOWED_EXCHANGES, _SYMBOLS, _TIME_FRAMES
    last,        \* the last call: which function, what it returned and did
    pre,         \* the configuration the last call started from
    limited      \* the dimensions whose limiter has already completed a run

vars == <<config, maxAllowed, last, pre, limited>>

NoMessages == [d \in Dimensions |-> EmptyMessage]

NoCall ==
    [op |-> "none", called |-> {}, failed |-> {}, propagated |-> FALSE,
     messages |-> NoMessages, limit_warning_messages |-> <<>>,
     updated |-> {}, trace |-> <<>>, all_enabled_time_frames |-> <<>>,
     limitedBefore |-> {}]

Currency(enabled, pairs) == [enabled |-> enabled, hasPairs |-> TRUE, pairs |-> pairs]
\* a currency entry with no pair list
MalformedCurrency == [enabled |-> "absent", hasPairs |-> FALSE, pairs |-> <<>>]

\* the pair lists of a currency: distinct tokens; the limiter compares a symbol
\* with the wildcard only, so the symbols are named in their order of appearance
InOrderOfAppearance(s) ==
    \A j \in DOMAIN s, k \in DOMAIN Symbols :
        s[j] = Symbols[k] /\ k > 1 => \E h \in 1..(j - 1) : s[h] = Symbols[k - 1]
PairLists ==
    {s \in SeqsUpTo(PairTokens, MaxPairs) : IsInjective(s) /\ InOrderOfAppearance(s)}
CurrencyEntries == {Currency(e, p) : e \in EnabledOptions, p \in PairLists}

Limits == 1..MaxLimit
\* the time frame ceilings that can bind: fewer than there are time frames
TimeFramesLimits == 1..(Cardinality(TimeFrames) - 1)

Configuration(exs, curs, strats) ==
    [exchanges |-> exs, hasExchanges |-> TRUE, currencies |-> curs,
     strategies |-> strats, strategiesFail |-> FALSE]

\* no call made yet
NoCallYet ==
    /\ last = NoCall
    /\ pre = config
    /\ limited = {}

\* configurations that vary in their exchanges
InitExchanges ==
    /\ \E exs \in SeqsUpTo(EnabledOptions, MaxExchanges) :
          config = Configuration(exs, <<>>, <<>>)
    /\ \E l \in Limits :
          maxAllowed = [exchanges |-> l, symbols |-> 1, time_frames |-> 1]
    /\ NoCallYet

\* configurations that vary in their currencies
InitSymbols ==
    /\ \E curs \in SeqsUpTo(CurrencyEntries, MaxCurrencies) :
          config = Configuration(<<>>, curs, <<>>)
    /\ \E l \in Limits :
          maxAllowed = [exchanges |-> 1, symbols |-> l, time_frames |-> 1]
    /\ NoCallYet

\* configurations that vary in their activated strategies
InitTimeFrames ==
    /\ \E strats \in SeqsUpTo(SUBSET TimeFrames, MaxStrategies) :
          config = Configuration(<<>>, <<>>, strats)
    /\ \E l \in TimeFramesLimits :
          maxAllowed = [exchanges |-> 1, symbols |-> 1, time_frames |-> l]
    /\ NoCallYet

\* configurations over the limit in several dimensions, possibly malformed,
\* under ceilings that may be unlimited
OverExchanges == {<<"absent", "true">>, <<"false", "true">>}
OverCurrencies ==
    {<<Currency("absent", <<"BTC/USDT", "BTC/EUR">>)>>,
     <<Currency("true", <<"BTC/USDT", Wildcard>>), Currency("absent", <<"BTC/EUR">>)>>,
     <<Currency("true", <<"BTC/USDT">>), MalformedCurrency>>,
     <<Currency("true", <<"BTC/USDT", Wildcard>>), MalformedCurrency>>}
OverStrategies == {<<{"1m", "1h"}, {"1h", "1d", "1w"}>>, <<{"1h"}>>}

InitOrchestrated ==
    /\ \E exs \in OverExchanges, curs \in OverCurrencies, strats \in OverStrategies,
          hasExs \in BOOLEAN, fail \in BOOLEAN :
          config = [exchanges |-> exs, hasExchanges |-> hasExs, currencies |-> curs,
                    strategies |-> strats, strategiesFail |-> fail]
    /\ \E le \in Limits \cup {Unlimited}, ls \in Limits \cup {Unlimited},
          lt \in TimeFramesLimits \cup {Unlimited} :
          maxAllowed = [exchanges |-> le, symbols |-> ls, time_frames |-> lt]
    /\ NoCallYet

Init == InitExchanges \/ InitSymbols \/ InitTimeFrames \/ InitOrchestrated

\* ---------------------------------------------------------------- actions
\* a caller runs _apply_exchanges_limits(config, logger, MAX_ALLOWED_EXCHANGES)
ApplyExchangesLimits ==
    /\ maxAllowed.exchanges # Unlimited
    /\ LET raised == ~config.hasExchanges
           r == IF raised
                THEN [exchanges |-> config.exchanges, message |-> EmptyMessage]
                ELSE ApplyExchangesLimitsOn(config.exchanges, maxAllowed.exchanges)
       IN  /\ config' = [config EXCEPT !.exchanges = r.exchanges]
           /\ last' = [NoCall EXCEPT
                         !.op = "exchanges",
                         !.called = {"exchanges"},
                         !.failed = IF raised THEN {"exchanges"} ELSE {},
                         !.propagated = raised,
                         !.messages = [NoMessages EXCEPT !.exchanges = r.message],
                         !.limitedBefore = limited]
           /\ limited' = IF raised THEN limited ELSE limited \cup {"exchanges"}
    /\ pre' = config
    /\ UNCHANGED maxAllowed

\* a caller runs _apply_symbols_limits(config, logger, MAX_ALLOWED_SYMBOLS)
ApplySymbolsLimits ==
    /\ maxAllowed.symbols # Unlimited
    /\ LET r == ApplySymbolsLimitsOn(config.currencies, maxAllowed.symbols)
       IN  /\ config' = [config EXCEPT !.currencies = r.currencies]
           /\ last' = [NoCall EXCEPT
                         !.op = "symbols",
                         !.called = {"symbols"},
                         !.failed = IF r.raised THEN {"symbols"} ELSE {},
                         !.propagated = r.raised,
                         !.messages = [NoMessages EXCEPT !.symbols = r.message],
                         !.limitedBefore = limited]
           /\ limited' = IF r.raised THEN limited ELSE limited \cup {"symbols"}
    /\ pre' = config
    /\ UNCHANGED maxAllowed

\* a caller runs _apply_time_frames_limits(config, logger, MAX_ALLOWED_TIME_FRAMES)
ApplyTimeFramesLimits ==
    /\ maxAllowed.time_frames # Unlimited
    /\ \E r \in ApplyTimeFramesLimitsOn(config.strategies, config.strategiesFail,
                                        maxAllowed.time_frames) :
          /\ config' = [config EXCEPT !.strategies = r.strategies]
          /\ last' = [NoCall EXCEPT
                        !.op = "time_frames",
                        !.called = {"time_frames"},
                        !.failed = IF r.raised THEN {"time_frames"} ELSE {},
                        !.propagated = r.raised,
                        !.messages = [NoMessages EXCEPT !.time_frames = r.message],
                        !.updated = r.updated,
                        !.trace = r.trace,
                        !.all_enabled_time_frames = r.all_enabled_time_frames,
                        !.limitedBefore = limited]
          /\ limited' = IF r.raised THEN limited ELSE limited \cup {"time_frames"}
    /\ pre' = config
    /\ UNCHANGED maxAllowed

\* a caller runs apply_config_limits(configuration)
ApplyConfigLimits ==
    /\ \E r \in ApplyConfigLimitsOn(config, maxAllowed) :
          /\ config' = r.config
          /\ last' = [op |-> "config", called |-> r.called, failed |-> r.failed,
                      propagated |-> r.propagated, messages |-> r.messages,
                      limit_warning_messages |-> r.limit_warning_messages,
                      updated |-> r.updated, trace |-> r.trace,
                      all_enabled_time_frames |-> r.all_enabled_time_frames,
                      limitedBefore |-> limited]
          /\ limited' = limited \cup (r.called \ r.failed)
    /\ pre' = config
    /\ UNCHANGED maxAllowed

Next == ApplyConfigLimits

\* the program: apply_config_limits is the only caller of the limiters
Spec == Init /\ [][Next]_vars

\* each limiter on its own, called with its ceiling
SpecExchanges == InitExchanges /\ [][ApplyExchangesLimits]_vars
SpecSymbols == InitSymbols /\ [][ApplySymbolsLimits]_vars
SpecTimeFrames == InitTimeFrames /\ [][ApplyTimeFramesLimits]_vars

\* ----------------------------------------------------------------- claims
\* an entry with no "enabled" key counts as enabled
EntryEnabled(option) == option \in {"absent", "true"}
EnabledEntries(entries) == {i \in DOMAIN entries : EntryEnabled(entries[i])}
\* the first n enabled entries, in iteration order
FirstEnabledEntries(entries, n) ==
    {i \in EnabledEntries(entries) :
        Cardinality({j \in EnabledEntries(entries) : j < i}) < n}

\* C1: after _apply_exchanges_limits the enabled exchanges are at most the
\* ceiling and are exactly the first min(ceiling, k) of the k exchanges enabled
\* before, in iteration order; an exchange disabled before stays disabled.
C1_ExchangeCeiling ==
    last.op = "exchanges" =>
        /\ Cardinality(EnabledEntries(config.exchanges)) <= maxAllowed.exchanges
        /\ EnabledEntries(config.exchanges)
               = FirstEnabledEntries(pre.exchanges, maxAllowed.exchanges)
        /\ \A i \in DOMAIN pre.exchanges :
               ~EntryEnabled(pre.exchanges[i]) => ~EntryEnabled(config.exchanges[i])

\* more exchanges enabled than the ceiling, among them one with no "enabled"
\* key that is kept, and one that was disabled before the call
C1_Witness ==
    /\ last.op = "exchanges"
    /\ Cardinality(EnabledEntries(pre.exchanges)) > maxAllowed.exchanges
    /\ \E i \in DOMAIN pre.exchanges : pre.exchanges[i] = "false"
    /\ \E i \in DOMAIN pre.exchanges :
           pre.exchanges[i] = "absent" /\ config.exchanges[i] = "absent"
    /\ \E i \in DOMAIN pre.exchanges :
           EntryEnabled(pre.exchanges[i]) /\ config.exchanges[i] = "false"

CurrencyEnabled(entry) == EntryEnabled(entry.enabled)
RECURSIVE EnabledPairCount(_)
\* the pairs listed in the currencies that are enabled
EnabledPairCount(curs) ==
    IF curs = <<>>
    THEN 0
    ELSE (IF CurrencyEnabled(Head(curs)) THEN Len(Head(curs).pairs) ELSE 0)
         + EnabledPairCount(Tail(curs))
HasWildcard(entry) == \E j \in DOMAIN entry.pairs : entry.pairs[j] = Wildcard

\* C2: after _apply_symbols_limits the pairs of the enabled currencies number
\* at most the ceiling, and every currency that was enabled and listed the
\* wildcard is disabled.
C2_SymbolCeiling ==
    last.op = "symbols" =>
        /\ EnabledPairCount(config.currencies) <= maxAllowed.symbols
        /\ \A i \in DOMAIN pre.currencies :
               CurrencyEnabled(pre.currencies[i]) /\ HasWildcard(pre.currencies[i])
                   => ~CurrencyEnabled(config.currencies[i])

\* a currency whose wildcard follows a pair that filled the ceiling, and a
\* later currency with a wildcard reached when the ceiling is already met
C2_Witness ==
    /\ last.op = "symbols"
    /\ Len(pre.currencies) = 2
    /\ CurrencyEnabled(pre.currencies[1])
    /\ Len(pre.currencies[1].pairs) = 2
    /\ pre.currencies[1].pairs[1] # Wildcard
    /\ pre.currencies[1].pairs[2] = Wildcard
    /\ maxAllowed.symbols = 1
    /\ CurrencyEnabled(pre.currencies[2])
    /\ HasWildcard(pre.currencies[2])
    /\ ~CurrencyEnabled(config.currencies[1])
    /\ ~CurrencyEnabled(config.currencies[2])

\* the time frames left enabled for some activated strategy
EnabledTimeFrames(strategies) == UNION {strategies[i] : i \in DOMAIN strategies}

\* C3: after _apply_time_frames_limits the distinct time frames left enabled
\* across the activated strategies are at most the ceiling, and so is
\* all_enabled_time_frames after every strategy of the loop.
C3_TimeFrameCeiling ==
    last.op = "time_frames" =>
        /\ Cardinality(EnabledTimeFrames(config.strategies)) <= maxAllowed.time_frames
        /\ \A k \in DOMAIN last.trace :
               Cardinality(last.trace[k]) <= maxAllowed.time_frames

\* C4: after _apply_time_frames_limits every activated strategy's enabled
\* time frames lie within the final all_enabled_time_frames.
C4_RetainedWithinAggregate ==
    last.op = "time_frames" =>
        \A i \in DOMAIN config.strategies :
            config.strategies[i] \subseteq ToSet(last.all_enabled_time_frames)

\* the first strategy fits and is left as it was, the second goes over the
\* ceiling and loses time frames
C4_Witness ==
    /\ last.op = "time_frames"
    /\ Len(config.strategies) = 2
    /\ last.updated = {2}
    /\ pre.strategies[1] # {}
    /\ config.strategies[1] = pre.strategies[1]
    /\ config.strategies[2] # {}
    /\ config.strategies[2] # pre.strategies[2]

\* C5: once the exchange and the symbol limiters have completed a run, a
\* further run of them under the same ceilings changes no enabled option and
\* no pair list and returns an empty message from both.
C5_ExchangesSymbolsIdempotent ==
    last.op = "config" =>
        /\ "exchanges" \in last.limitedBefore \cap last.called =>
               /\ "exchanges" \notin last.failed
               /\ config.exchanges = pre.exchanges
               /\ last.messages.exchanges.empty
        /\ "symbols" \in last.limitedBefore \cap last.called =>
               /\ "symbols" \notin last.failed
               /\ config.currencies = pre.currencies
               /\ last.messages.symbols.empty

\* a second run of both limiters over a configuration in which an earlier run
\* has left an exchange and a currency disabled, and a pair list at the ceiling
C5_Witness ==
    /\ last.op = "config"
    /\ {"exchanges", "symbols"} \subseteq last.limitedBefore \cap last.called
    /\ \E i \in DOMAIN config.exchanges : config.exchanges[i] = "false"
    /\ Cardinality(EnabledEntries(config.exchanges)) = maxAllowed.exchanges
    /\ \E i \in DOMAIN config.currencies : ~CurrencyEnabled(config.currencies[i])
    /\ \E i \in DOMAIN config.currencies :
           /\ CurrencyEnabled(config.currencies[i])
           /\ Len(config.currencies[i].pairs) = maxAllowed.symbols

\* C6: a second run of _apply_time_frames_limits under the same ceiling saves
\* no time frame list, leaves every strategy's time frames unchanged and
\* returns an empty message.
C6_TimeFramesIdempotent ==
    last.op = "time_frames" /\ "time_frames" \in last.limitedBefore =>
        /\ last.updated = {}
        /\ config.strategies = pre.strategies
        /\ last.messages.time_frames.empty

C8_FailureKeepsCollected ==
    last.op = "config" =>
        LET exFinite == maxAllowed.exchanges # Unlimited
            exFailed == exFinite /\ ~pre.hasExchanges
            exDone == exFinite /\ pre.hasExchanges
            ex == ApplyExchangesLimitsOn(pre.exchanges, maxAllowed.exchanges)
            symRun == ~exFailed /\ maxAllowed.symbols # Unlimited
            sym == ApplySymbolsLimitsOn(pre.currencies, maxAllowed.symbols)
            symFailed == symRun /\ sym.raised
            tfRun == ~exFailed /\ ~symFailed /\ maxAllowed.time_frames # Unlimited
            tfs == IF tfRun
                   THEN ApplyTimeFramesLimitsOn(pre.strategies, pre.strategiesFail,
                                                maxAllowed.time_frames)
                   ELSE {NoTimeFramesRun(pre.strategies)}
            exMessage == IF exDone THEN <<ex.message>> ELSE <<>>
            symMessage == IF symRun /\ ~symFailed THEN <<sym.message>> ELSE <<>>
        IN  /\ ~last.propagated
            /\ config.exchanges = IF exDone THEN ex.exchanges ELSE pre.exchanges
            /\ config.currencies = IF symRun THEN sym.currencies ELSE pre.currencies
            /\ \E tf \in tfs :
                   /\ config.strategies = tf.strategies
                   /\ last.limit_warning_messages
                          = SelectSeq(exMessage \o symMessage
                                        \o (IF tfRun /\ ~tf.raised
                                            THEN <<tf.message>> ELSE <<>>),
                                      NonEmptyMessage)
            /\ \A k \in DOMAIN last.limit_warning_messages :
                   ~last.limit_warning_messages[k].empty
            /\ \A d \in Dimensions :
                   maxAllowed[d] = Unlimited =>
                       d \notin last.called /\ last.messages[d].empty

\* the symbol limiter raises after it has disabled a currency, and after the
\* exchange limiter has disabled an exchange and returned its message; the
\* time frame ceiling is finite
C8_Witness ==
    /\ last.op = "config"
    /\ last.failed = {"symbols"}
    /\ maxAllowed.time_frames # Unlimited
    /\ Len(last.limit_warning_messages) = 1
    /\ config.exchanges # pre.exchanges
    /\ config.currencies # pre.currencies

\* what each limiter disabled during the last call
DisabledAnExchange ==
    \E i \in DOMAIN pre.exchanges :
        EntryEnabled(pre.exchanges[i]) /\ ~EntryEnabled(config.exchanges[i])
DisabledASymbol ==
    \E i \in DOMAIN pre.currencies :
        /\ CurrencyEnabled(pre.currencies[i])
        /\ \/ ~CurrencyEnabled(config.currencies[i])
           \/ config.currencies[i].pairs # pre.currencies[i].pairs
DisabledATimeFrame ==
    \E i \in DOMAIN pre.strategies :
        /\ config.strategies[i] # pre.strategies[i]
        /\ config.strategies[i] \subseteq pre.strategies[i]

\* C9: a limiter that completes returns a non-empty message exactly when it
\* disabled something: an exchange; a currency, or a pair of an enabled
\* currency; a strategy's time frame, saved as a shorter list.  So
\* apply_config_limits returns at most one message for each limiter called and
\* none for a dimension it left unchanged.
C9_MessageIffDisabled ==
    last.op = "config" =>
        /\ "exchanges" \in last.called \ last.failed =>
               (~last.messages.exchanges.empty <=> DisabledAnExchange)
        /\ "symbols" \in last.called \ last.failed =>
               (~last.messages.symbols.empty <=> DisabledASymbol)
        /\ "time_frames" \in last.called \ last.failed =>
               /\ ~last.messages.time_frames.empty <=> DisabledATimeFrame
               /\ ~last.messages.time_frames.empty <=> last.updated # {}
               /\ \A i \in DOMAIN pre.strategies :
                      i \in last.updated <=> config.strategies[i] # pre.strategies[i]
        /\ Len(last.limit_warning_messages) <= Cardinality(last.called \ last.failed)
        /\ config.exchanges = pre.exchanges => last.messages.exchanges.empty
        /\ config.currencies = pre.currencies => last.messages.symbols.empty
        /\ config.strategies = pre.strategies => last.messages.time_frames.empty

\* the three limiters each disable something and each return a message; the
\* symbol limiter has dropped a pair from a currency it leaves enabled
C9_Witness ==
    /\ last.op = "config"
    /\ last.failed = {}
    /\ Len(last.limit_warning_messages) = 3
    /\ DisabledAnExchange
    /\ DisabledATimeFrame
    /\ \E i \in DOMAIN pre.currencies :
           /\ CurrencyEnabled(config.currencies[i])
           /\ config.currencies[i].pairs # pre.currencies[i].pairs

\* all_enabled_time_frames when strategy i is reached
ReachedWith(i) == IF i = 1 THEN {} ELSE last.trace[i - 1]

\* C10: every time frame that _apply_time_frames_limits disables for a
\* strategy is shorter than every time frame of that strategy's requested set
\* that stays enabled for it.
C10_EvictionOrder ==
    last.op = "time_frames" =>
        \A i \in DOMAIN pre.strategies :
            \A off \in pre.strategies[i] \ config.strategies[i] :
                \A on \in config.strategies[i] :
                    TimeFramesMinutes[off] < TimeFramesMinutes[on]

\* C10 as amended: the time frames disabled for a strategy were all missing
\* from all_enabled_time_frames when the strategy was reached, and each is
\* shorter than every missing time frame of the strategy that was admitted;
\* the requested time frames already in all_enabled_time_frames stay enabled,
\* whatever their duration.
C10_EvictionOrderAmongMissing ==
    last.op = "time_frames" =>
        \A i \in DOMAIN pre.strategies :
            LET requested == pre.strategies[i]
                kept == config.strategies[i]
                missing == requested \ ReachedWith(i)
            IN  /\ requested \cap ReachedWith(i) \subseteq kept
                /\ kept \subseteq requested
                /\ \A off \in missing \ kept :
                       \A on \in missing \cap kept :
                           TimeFramesMinutes[off] < TimeFramesMinutes[on]

\* S1 = {1m, 1h}, S2 = {1h, 1d, 1w}, ceiling 3: S2 keeps 1h, which S1 had
\* brought in, and 1w, and loses 1d only
C10_Witness ==
    /\ last.op = "time_frames"
    /\ maxAllowed.time_frames = 3
    /\ pre.strategies = <<{"1m", "1h"}, {"1h", "1d", "1w"}>>
    /\ config.strategies = <<{"1m", "1h"}, {"1h", "1w"}>>
    /\ ToSet(last.all_enabled_time_frames) = {"1m", "1h", "1w"}

\* the has-disabled flag when strategy i is reached: an earlier strategy met
\* the over-limit branch
FlagSetBefore(i) ==
    \E j \in 1..(i - 1) :
        Cardinality(ReachedWith(j) \cup pre.strategies[j]) > maxAllowed.time_frames

\* the n longest members of the set S of time frames
Longest(S, n) ==
    {tf \in S :
        Cardinality({other \in S : TimeFramesMinutes[other] > TimeFramesMinutes[tf]}) < n}

\* C11: in the over-limit branch of _apply_time_frames_limits, with
\* all_enabled_time_frames below the ceiling, the time frames admitted from
\* the strategy are exactly the (ceiling - |all_enabled_time_frames|) longest
\* of its time frames missing from all_enabled_time_frames, which then has
\* exactly ceiling members; and once the has-disabled flag is set, no later
\* strategy adds a time frame to all_enabled_time_frames.
C11_AdmitsLongestThatFit ==
    last.op = "time_frames" =>
        \A i \in DOMAIN last.trace :
            LET before == ReachedWith(i)
                requested == pre.strategies[i]
                missing == requested \ before
                limit == maxAllowed.time_frames
            IN  /\ Cardinality(before \cup requested) > limit
                       /\ Cardinality(before) < limit
                    => /\ last.trace[i] \ before
                              = Longest(missing, limit - Cardinality(before))
                       /\ Cardinality(last.trace[i]) = limit
                /\ FlagSetBefore(i) => last.trace[i] = before

\* a list of time frames in ascending order of duration
IsAscending(s) ==
    \A j, k \in DOMAIN s : j < k => TimeFramesMinutes[s[j]] < TimeFramesMinutes[s[k]]

\* C12: whenever _apply_time_frames_limits returns a non-empty message, the
\* time frames the message lists are in ascending order of duration.
C12_MessageInDurationOrder ==
    last.op = "time_frames" /\ ~last.messages.time_frames.empty =>
        IsAscending(last.messages.time_frames.listed)

RECURSIVE PairsOfEnabled(_)
\* the pair lists of the enabled currencies, one after the other
PairsOfEnabled(curs) ==
    IF curs = <<>>
    THEN <<>>
    ELSE (IF CurrencyEnabled(Head(curs)) THEN Head(curs).pairs ELSE <<>>)
         \o PairsOfEnabled(Tail(curs))

\* C13: when _apply_symbols_limits returns a non-empty message, the symbols
\* the message lists are exactly the pair lists of the currencies left
\* enabled, one after the other in iteration order; so no listed symbol is of
\* a currency that ends disabled, and a currency without wildcard is cut down
\* to the room left by the pairs of the earlier currencies left enabled: the
\* pairs met before the wildcard of a disabled currency take no room.
C13_ReportedAreEnabledPairs ==
    last.op = "symbols" /\ ~last.messages.symbols.empty =>
        /\ last.messages.symbols.listed = PairsOfEnabled(config.currencies)
        /\ \A i \in DOMAIN pre.currencies :
               CurrencyEnabled(pre.currencies[i]) /\ ~HasWildcard(pre.currencies[i]) =>
                   LET room == maxAllowed.symbols
                                 - EnabledPairCount(SubSeq(config.currencies, 1, i - 1))
                       pairs == pre.currencies[i].pairs
                   IN  IF room <= 0
                       THEN ~CurrencyEnabled(config.currencies[i])
                       ELSE /\ CurrencyEnabled(config.currencies[i])
                            /\ config.currencies[i].pairs
                                   = SubSeq(pairs, 1, Min(room, Len(pairs)))

====
